---- MODULE Spec2Model ----
(***************************************************************************)
(* Model of mikah13/slack-tools: the non-repeating selector                *)
(* (getRandomIndex), the rotation script (cycleProfile, animate profile    *)
(* picture) and the Spotify tracker (token store, PKCE flow, track poller, *)
(* status publisher, scheduler tick).                                      *)
(*                                                                         *)
(* JavaScript runs one task at a time; a task gives up control only at an  *)
(* await on I/O (a fetch and the reading of its body, the digest of the    *)
(* PKCE challenge).  An await on a call that returned without I/O is taken *)
(* to continue at once.  A task's run between two I/O awaits is cut into   *)
(* the calls it makes; while a task is inside such a run no other task and *)
(* no clock tick is scheduled.  JS indices are 0-based: images[i] of the   *)
(* source is images[i + 1] here.  NULL stands for every falsy token value. *)
(***************************************************************************)
EXTENDS Integers, Sequences, FiniteSets, TLC

\* ---------------------------------------------------------------- bounds
MaxImages == 2      \* longest image list
MaxStatuses == 2    \* longest status list
MaxCycles == 3      \* timer firings of the rotation script
MaxOverlap == 2     \* cycleProfile invocations in flight together
MaxSelCalls == 2    \* calls of getRandomIndex in the selector harness
MaxLen == 3         \* longest array handed to the selector harness
NumAccess == 2      \* distinct access tokens the provider issues
NumRefresh == 2     \* distinct refresh tokens
NumVerifiers == 2   \* distinct PKCE verifiers generateRandomString yields
MaxExpiresIn == 1   \* longest provider-reported lifetime, in seconds
TickMs == 500       \* granularity of the clock, in milliseconds
MaxNow == 2000      \* the clock stops advancing here
MaxTasks == 2       \* requests and scheduler ticks in flight together
MaxOps == 3         \* requests and scheduler ticks started in a run

\* ------------------------------------------------------ program constants
NULL == 0              \* null / undefined / "" : every falsy token value
MsPerSecond == 1000    \* Date.now() + expires_in * 1000

VARIABLES
  \* utils.ts (module-level memory of the one-argument selector)
  lastIndex,
  \* the running getRandomIndex invocation
  sel,
  selCalls,
  \* animate profile picture script
  images, statuses, currentStatusIndex, lastImageIndex,
  cycles, cycleCount, picks, posted,
  \* Spotify tracker
  tokenStorage, SLACK_TOKEN, now, tasks, opCount, fresh, issued,
  \* the periodic timer (setInterval) of the running script
  scheduler

selVars == <<lastIndex, sel, selCalls>>
rotVars == <<images, statuses, currentStatusIndex, lastImageIndex,
             cycles, cycleCount, picks, posted>>
spotVars == <<tokenStorage, SLACK_TOKEN, now, tasks, opCount, fresh, issued>>
vars == <<selVars, rotVars, spotVars, scheduler>>

\* ------------------------------------------------------------- selector
\* Math.floor(Math.random() * n): any index below n, and 0 when n = 0.
RandomFloor(n) == IF n = 0 THEN {0} ELSE 0 .. (n - 1)

\* given / prev: the arguments as they were at entry
SelIdle == [pc |-> "idle", impl |-> "none", array |-> << >>,
            lastIndex |-> -1, newIndex |-> -1, given |-> << >>, prev |-> -1]

\* Entry of getRandomIndex(array, lastIndex): the two-argument selector.
getRandomIndexParam(array, previousIndex) ==
  [pc |-> "loop", impl |-> "param", array |-> array,
   lastIndex |-> previousIndex, newIndex |-> -1,
   given |-> array, prev |-> previousIndex]

\* Entry of getRandomIndex(array) of utils.ts: previous pick is module state.
getRandomIndexGlobal(array) ==
  [pc |-> "loop", impl |-> "global", array |-> array,
   lastIndex |-> lastIndex, newIndex |-> -1,
   given |-> array, prev |-> lastIndex]

RedrawNever(newIndex, previousIndex, array) == FALSE

RedrawAnyLength(newIndex, previousIndex, array) == newIndex = previousIndex

\* The loop condition: newIndex === lastIndex && array.length > 1.
Redraw(newIndex, previousIndex, array) ==
  newIndex = previousIndex /\ Len(array) > 1

\* One iteration of the do-while loop with draw d, and the return after it.
getRandomIndexIter ==
  /\ sel.pc = "loop"
  /\ \E d \in RandomFloor(Len(sel.array)) :
       IF Redraw(d, sel.lastIndex, sel.array)
         THEN /\ sel' = [sel EXCEPT !.newIndex = d]
              /\ UNCHANGED lastIndex
         ELSE /\ sel' = [sel EXCEPT !.newIndex = d, !.lastIndex = d,
                                    !.pc = "ret"]
              /\ lastIndex' = IF sel.impl = "global" THEN d ELSE lastIndex
  /\ UNCHANGED <<selCalls, rotVars, spotVars, scheduler>>

\* ---- harness of the selector: any array, any previous index
SelArrays == { [i \in 1 .. n |-> i] : n \in 1 .. MaxLen }
SelPrevious == -1 .. (MaxLen + 1)

SelCallParam ==
  /\ sel.pc = "idle" /\ selCalls < MaxSelCalls
  /\ \E a \in SelArrays, p \in SelPrevious : sel' = getRandomIndexParam(a, p)
  /\ selCalls' = selCalls + 1
  /\ UNCHANGED <<lastIndex, rotVars, spotVars, scheduler>>

SelCallGlobal ==
  /\ sel.pc = "idle" /\ selCalls < MaxSelCalls
  /\ \E a \in SelArrays : sel' = getRandomIndexGlobal(a)
  /\ selCalls' = selCalls + 1
  /\ UNCHANGED <<lastIndex, rotVars, spotVars, scheduler>>

\* the caller takes the returned index
SelReturn ==
  /\ sel.pc = "ret"
  /\ sel' = SelIdle
  /\ UNCHANGED <<lastIndex, selCalls, rotVars, spotVars, scheduler>>

\* ------------------------------------------------------------- rotation
\* State of one updateSlackPhoto / updateSlackStatus call (utils/slack.ts):
\* where it waits, what each request met, and how its promise settled.
PhotoIdle == [pc |-> "none", img |-> "none", post |-> "none",
              status |-> "pending", value |-> FALSE]
StatusIdle == [pc |-> "none", post |-> "none", sent |-> -1,
               status |-> "pending", value |-> FALSE]

ImageOutcomes == {"ok", "http_error", "throw"}
PostOutcomes == {"ok", "rejected", "throw"}

\* updateSlackPhoto up to its first await: fetch(image) is in flight.
updateSlackPhotoCall == [PhotoIdle EXCEPT !.pc = "fetch"]

\* The image fetch ended with o.  The response's ok flag is not looked at:
\* only a thrown fetch or blob() reaches the catch and returns false.
updateSlackPhotoImage(p, o) ==
  IF o = "throw"
    THEN [p EXCEPT !.img = o, !.pc = "done", !.status = "fulfilled",
                   !.value = FALSE]
    ELSE [p EXCEPT !.img = o, !.pc = "post"]

\* The users.setPhoto request ended with o: true only when data.ok.
updateSlackPhotoPost(p, o) ==
  [p EXCEPT !.post = o, !.pc = "done", !.status = "fulfilled",
            !.value = (o = "ok")]

\* updateSlackStatus up to its await: users.profile.set is in flight with
\* the status the caller passed.
updateSlackStatusCall(status) ==
  [StatusIdle EXCEPT !.pc = "post", !.sent = status]

updateSlackStatusPostNoCatch(s, o) ==
  IF o = "throw"
    THEN [s EXCEPT !.post = o, !.pc = "done", !.status = "rejected"]
    ELSE [s EXCEPT !.post = o, !.pc = "done", !.status = "fulfilled",
                   !.value = (o = "ok")]

\* The users.profile.set request ended with o: true only when data.ok.
updateSlackStatusPost(s, o) ==
  [s EXCEPT !.post = o, !.pc = "done", !.status = "fulfilled",
            !.value = (o = "ok")]

CycleIdle == [pc |-> "idle", image |-> -1, photo |-> PhotoIdle,
              stat |-> StatusIdle]
Cycles == 1 .. MaxOverlap

\* The timer set by setInterval and what became of its callbacks so far.
\* mode: which script runs; running: the timer is registered and the
\* process is alive; failed: some callback run has ended in a skip or a
\* failed update.
SchedulerOn(mode) == [mode |-> mode, running |-> TRUE, failed |-> FALSE]

\* The timer after a callback run whose promise settled as given: no code
\* clears the interval, and only a rejected promise of the callback (an
\* unhandled rejection) ends the process.
TimerAfter(sch, settled, failed) ==
  [sch EXCEPT !.running = @ /\ settled = "fulfilled",
              !.failed = @ \/ failed]

EmptyImagesOnly(imgs, stats) == Len(imgs) = 0

\* images.length === 0 || statuses.length === 0
EmptyLists(imgs, stats) == Len(imgs) = 0 \/ Len(stats) = 0

advanceCursorNoWrap(index, n) == index + 1

\* (currentStatusIndex + 1) % statuses.length
advanceCursor(index, n) == (index + 1) % n

\* a cycle ended without both updates done: it was skipped on the empty
\* check, or an update returned false
CycleFailed(cycle) ==
  cycle.pc = "skipped" \/ ~cycle.photo.value \/ ~cycle.stat.value

cycleProfileRethrows(cycle) ==
  IF CycleFailed(cycle) THEN "rejected" ELSE "fulfilled"

\* How the promise of a cycleProfile() run settles: the empty check returns,
\* both updates catch their own errors, Promise.allSettled never rejects and
\* rejected results are only logged.
cycleProfileSettled(cycle) == "fulfilled"

\* a cycleProfile invocation is at its return ("settled", or "skipped" on the
\* empty check): nothing else runs until it has returned
Returning == \E c \in Cycles : cycles[c].pc \in {"settled", "skipped"}

\* setInterval(cycleProfile, INTERVAL) / cycleProfile(): the timer fires and
\* cycleProfile runs up to the call of getRandomIndex, or returns on the
\* empty check.
cycleProfileStart(c) ==
  /\ scheduler.running
  /\ sel.pc = "idle"
  /\ ~Returning
  /\ cycles[c].pc = "idle"
  /\ \A d \in Cycles : d < c => cycles[d].pc # "idle"
  /\ cycleCount < MaxCycles
  /\ cycleCount' = cycleCount + 1
  /\ IF EmptyLists(images, statuses)
       THEN /\ cycles' = [cycles EXCEPT ![c] = [CycleIdle EXCEPT !.pc = "skipped"]]
            /\ UNCHANGED sel
       ELSE /\ cycles' = [cycles EXCEPT ![c] = [CycleIdle EXCEPT !.pc = "select"]]
            /\ sel' = getRandomIndexParam(images, lastImageIndex)
  /\ UNCHANGED <<lastIndex, selCalls, images, statuses, currentStatusIndex,
                 lastImageIndex, picks, posted, spotVars, scheduler>>

\* getRandomIndex returned: both updates are started (Promise.allSettled).
\* updateSlackPhoto is at its image fetch, updateSlackStatus has posted
\* statuses[currentStatusIndex].
cycleProfileLaunch(c) ==
  /\ sel.pc = "ret"
  /\ cycles[c].pc = "select"
  /\ sel' = SelIdle
  /\ cycles' = [cycles EXCEPT ![c] =
       [pc |-> "await", image |-> sel.newIndex,
        photo |-> updateSlackPhotoCall,
        stat |-> updateSlackStatusCall(currentStatusIndex)]]
  /\ picks' = Append(picks, sel.newIndex)
  /\ posted' = Append(posted, currentStatusIndex)
  /\ UNCHANGED <<lastIndex, selCalls, images, statuses, currentStatusIndex,
                 lastImageIndex, cycleCount, spotVars, scheduler>>

\* the image fetch of cycle c's updateSlackPhoto completes
cyclePhotoImage(c) ==
  /\ sel.pc = "idle" /\ ~Returning
  /\ cycles[c].pc = "await" /\ cycles[c].photo.pc = "fetch"
  /\ \E o \in ImageOutcomes :
       cycles' = [cycles EXCEPT ![c].photo = updateSlackPhotoImage(@, o)]
  /\ UNCHANGED <<selVars, images, statuses, currentStatusIndex,
                 lastImageIndex, cycleCount, picks, posted, spotVars,
                 scheduler>>

\* the users.setPhoto request of cycle c completes
cyclePhotoPost(c) ==
  /\ sel.pc = "idle" /\ ~Returning
  /\ cycles[c].pc = "await" /\ cycles[c].photo.pc = "post"
  /\ \E o \in PostOutcomes :
       cycles' = [cycles EXCEPT ![c].photo = updateSlackPhotoPost(@, o)]
  /\ UNCHANGED <<selVars, images, statuses, currentStatusIndex,
                 lastImageIndex, cycleCount, picks, posted, spotVars,
                 scheduler>>

\* the users.profile.set request of cycle c completes
cycleStatusPost(c) ==
  /\ sel.pc = "idle" /\ ~Returning
  /\ cycles[c].pc = "await" /\ cycles[c].stat.pc = "post"
  /\ \E o \in PostOutcomes :
       cycles' = [cycles EXCEPT ![c].stat = updateSlackStatusPost(@, o)]
  /\ UNCHANGED <<selVars, images, statuses, currentStatusIndex,
                 lastImageIndex, cycleCount, picks, posted, spotVars,
                 scheduler>>

\* Promise.allSettled resolved: rejections are logged and the status cursor
\* advances.
cycleProfileSettle(c) ==
  /\ sel.pc = "idle" /\ ~Returning
  /\ cycles[c].pc = "await"
  /\ cycles[c].photo.pc = "done" /\ cycles[c].stat.pc = "done"
  /\ cycles' = [cycles EXCEPT ![c].pc = "settled"]
  /\ currentStatusIndex' = advanceCursor(currentStatusIndex, Len(statuses))
  /\ UNCHANGED <<selVars, images, statuses, lastImageIndex, cycleCount,
                 picks, posted, spotVars,
                 scheduler>>

\* cycleProfile returned: its slot is free for a later timer firing
cycleProfileReturn(c) ==
  /\ cycles[c].pc \in {"settled", "skipped"}
  /\ cycles' = [cycles EXCEPT ![c] = CycleIdle]
  /\ scheduler' = TimerAfter(scheduler, cycleProfileSettled(cycles[c]),
                             CycleFailed(cycles[c]))
  /\ UNCHANGED <<selVars, images, statuses, currentStatusIndex,
                 lastImageIndex, cycleCount, picks, posted, spotVars>>

\* ------------------------------------------------------- Spotify tracker
AccessTokens == 1 .. NumAccess
RefreshTokens == 1 .. NumRefresh
Verifiers == 1 .. NumVerifiers
Lifetimes == 1 .. MaxExpiresIn
Tasks == 1 .. MaxTasks

\* trackInfo values: null, { isPlaying: false }, and the parsed 200 body
\* (trackName / albumArtUrl record whether the field is defined).
NullTrack == [null |-> TRUE, isPlaying |-> FALSE, trackName |-> FALSE,
              albumArtUrl |-> FALSE]
NotPlaying == [null |-> FALSE, isPlaying |-> FALSE, trackName |-> FALSE,
               albumArtUrl |-> FALSE]
NoResponse == [status |-> 0, success |-> FALSE, error |-> "none"]
\* the last successful code exchange (token issued, when, lifetime), kept
\* while nothing else has written the token record; called: a
\* refreshSpotifyToken call has been made since
NoFresh == [token |-> NULL, at |-> 0, lifetime |-> 0, called |-> FALSE]
\* the access token and the expiry of the last accepted token response, as
\* the provider sent them and the clock stood
NoIssue == [access_token |-> NULL, expiry |-> 0]
Issue(reply, t0) ==
  [access_token |-> reply.access_token,
   expiry |-> t0 + reply.expires_in * MsPerSecond]

\* replies of the token endpoint: response.ok with the JSON body, a non-ok
\* status ("rejected"), or a fetch / parse that throws
TokenFailures ==
  { [outcome |-> o, access_token |-> NULL, refresh_token |-> NULL,
     expires_in |-> 0] : o \in {"rejected", "throw"} }
TokenReplies(refreshTokens) ==
  TokenFailures \cup
  { [outcome |-> "ok", access_token |-> a, refresh_token |-> r,
     expires_in |-> l] :
      a \in AccessTokens, r \in refreshTokens, l \in Lifetimes }

\* one handler(req) or updateSpotifyStatus() invocation and its locals
\* (body: the refreshToken of a /set-token body; granted: the refresh
\* token of the token reply just received; http: the status of the
\* now-playing reply, -1 before it, 0 when the request threw)
TaskIdle == [kind |-> "none", pc |-> "idle", code |-> NULL,
             verifier |-> NULL, body |-> NULL,
             sent |-> NULL, token |-> NULL, via |-> "none",
             granted |-> NULL, polled |-> FALSE, http |-> -1,
             track |-> NullTrack, stat |-> StatusIdle, photo |-> PhotoIdle,
             statusResult |-> FALSE, photoResult |-> FALSE,
             resp |-> NoResponse]

\* pcs at which a task is between two statements of one synchronous run:
\* no other task and no clock tick can come in between.  "done" is the
\* return of the handler or tick, with its response and results.
Transient == {"callRefresh", "gotToken", "gotTrack", "gotStatus", "done"}
Running == \E t \in Tasks : tasks[t].pc \in Transient
\* a request or timer firing takes the first free slot (slots are alike)
CanStart(t) ==
  /\ scheduler.running
  /\ ~Running
  /\ tasks[t].pc = "idle"
  /\ \A u \in Tasks : u < t => tasks[u].pc # "idle"
  /\ opCount < MaxOps

\* task t moves to nt
Step(t, nt) == tasks' = [tasks EXCEPT ![t] = nt]

Respond(status, success, error) ==
  [status |-> status, success |-> success, error |-> error]

\* Date.now() moves on while tasks wait on I/O
clockTick ==
  /\ ~Running
  /\ now + TickMs <= MaxNow
  /\ now' = now + TickMs
  /\ UNCHANGED <<selVars, rotVars, tokenStorage, SLACK_TOKEN, tasks, opCount, fresh,
                 issued, scheduler>>

\* GET /auth up to await generateCodeChallenge(codeVerifier)
authStart(t) ==
  /\ CanStart(t)
  /\ \E v \in Verifiers :
       Step(t, [TaskIdle EXCEPT !.kind = "auth", !.pc = "challenge", !.verifier = v])
  /\ opCount' = opCount + 1
  /\ UNCHANGED <<selVars, rotVars, tokenStorage, SLACK_TOKEN, now, fresh,
                 issued, scheduler>>

\* GET /auth after the challenge: the verifier becomes the pending one
authStore(t) ==
  /\ ~Running
  /\ tasks[t].pc = "challenge"
  /\ tokenStorage' = [tokenStorage EXCEPT !.codeVerifier = tasks[t].verifier]
  /\ Step(t, [tasks[t] EXCEPT !.pc = "done",
                            !.resp = Respond(200, TRUE, "none")])
  /\ UNCHANGED <<selVars, rotVars, SLACK_TOKEN, now, opCount, fresh,
                 issued, scheduler>>

exchangeStoreClearsVerifier(ts, reply, t0) ==
  IF reply.outcome # "ok" THEN [ts EXCEPT !.codeVerifier = NULL]
  ELSE [ts EXCEPT !.accessToken = reply.access_token,
                  !.refreshToken = reply.refresh_token,
                  !.tokenExpiry = t0 + reply.expires_in * MsPerSecond,
                  !.codeVerifier = NULL]

exchangeStoreSeconds(ts, reply, t0) ==
  IF reply.outcome # "ok" THEN ts
  ELSE [ts EXCEPT !.accessToken = reply.access_token,
                  !.refreshToken = reply.refresh_token,
                  !.tokenExpiry = t0 + reply.expires_in,
                  !.codeVerifier = NULL]

\* The token record after /callback got the reply at time t0: tokenData is
\* null unless response.ok, and then nothing is stored.
exchangeStore(ts, reply, t0) ==
  IF reply.outcome # "ok" THEN ts
  ELSE [ts EXCEPT !.accessToken = reply.access_token,
                  !.refreshToken = reply.refresh_token,
                  !.tokenExpiry = t0 + reply.expires_in * MsPerSecond,
                  !.codeVerifier = NULL]

MissingVerifierUnchecked(ts) == FALSE

\* !tokenStorage.codeVerifier
MissingVerifier(ts) == ts.codeVerifier = NULL

\* GET /callback?code=... up to the fetch of exchangeCodeForToken
\* (code = NULL: the query has no code)
callbackStart(t) ==
  /\ CanStart(t)
  /\ \E code \in {NULL, 1} :
       Step(t, IF code = NULL
           THEN [TaskIdle EXCEPT !.kind = "callback", !.pc = "done",
                   !.resp = Respond(400, FALSE, "No authorization code provided")]
         ELSE IF MissingVerifier(tokenStorage)
           THEN [TaskIdle EXCEPT !.kind = "callback", !.pc = "done",
                   !.code = code,
                   !.resp = Respond(400, FALSE, "No code verifier found")]
           ELSE [TaskIdle EXCEPT !.kind = "callback", !.pc = "exchangeWait",
                   !.code = code,
                   !.verifier = tokenStorage.codeVerifier])
  /\ opCount' = opCount + 1
  /\ UNCHANGED <<selVars, rotVars, tokenStorage, SLACK_TOKEN, now, fresh,
                 issued, scheduler>>

\* the token endpoint answered the exchange: tokenData or null, then the
\* rest of /callback (any 2xx body is taken as tokenData, so its
\* refresh_token may be absent)
exchangeResponse(t) ==
  /\ ~Running
  /\ tasks[t].pc = "exchangeWait"
  /\ \E reply \in TokenReplies({NULL} \cup RefreshTokens) :
       /\ tokenStorage' = exchangeStore(tokenStorage, reply, now)
       /\ Step(t, [tasks[t] EXCEPT !.pc = "done", !.via = reply.outcome,
                      !.token = reply.access_token,
                      !.granted = reply.refresh_token,
                      !.resp = IF reply.outcome = "ok"
                         THEN Respond(200, TRUE, "none")
                         ELSE Respond(500, FALSE,
                           "Failed to exchange authorization code for tokens")])
       /\ fresh' = IF reply.outcome = "ok"
                     THEN [token |-> reply.access_token, at |-> now,
                           lifetime |-> reply.expires_in, called |-> FALSE]
                     ELSE fresh
       /\ issued' = IF reply.outcome = "ok" THEN Issue(reply, now)
                                            ELSE issued
  /\ UNCHANGED <<selVars, rotVars, SLACK_TOKEN, now, opCount, scheduler>>

setTokenStoreDeferred(ts, refreshToken) == ts

\* tokenStorage.refreshToken = body.refreshToken, ahead of the validation
setTokenStore(ts, refreshToken) == [ts EXCEPT !.refreshToken = refreshToken]

\* POST /set-token up to the call of refreshSpotifyToken
\* (refreshToken = NULL: the body has no refreshToken)
setTokenStart(t) ==
  /\ CanStart(t)
  /\ \E malformed \in BOOLEAN, refreshToken \in {NULL} \cup RefreshTokens :
       IF malformed
         THEN /\ Step(t, [TaskIdle EXCEPT !.kind = "set-token", !.pc = "done",
                      !.resp = Respond(400, FALSE, "Invalid JSON body")])
              /\ UNCHANGED tokenStorage
       ELSE IF refreshToken = NULL
         THEN /\ Step(t, [TaskIdle EXCEPT !.kind = "set-token", !.pc = "done",
                      !.resp = Respond(400, FALSE, "No refresh token provided")])
              /\ UNCHANGED tokenStorage
         ELSE /\ Step(t, [TaskIdle EXCEPT !.kind = "set-token",
                      !.pc = "callRefresh", !.body = refreshToken])
              /\ tokenStorage' = setTokenStore(tokenStorage, refreshToken)
  /\ opCount' = opCount + 1
  /\ UNCHANGED <<selVars, rotVars, SLACK_TOKEN, now, fresh, issued, scheduler>>

\* default route: getCurrentlyPlaying() is entered
defaultStart(t) ==
  /\ CanStart(t)
  /\ Step(t, [TaskIdle EXCEPT !.kind = "default", !.pc = "callRefresh"])
  /\ opCount' = opCount + 1
  /\ UNCHANGED <<selVars, rotVars, tokenStorage, SLACK_TOKEN, now, fresh,
                 issued, scheduler>>

\* setInterval(updateSpotifyStatus, 15000) fires
updateSpotifyStatusStart(t) ==
  /\ CanStart(t)
  /\ Step(t, IF tokenStorage.refreshToken = NULL
         THEN [TaskIdle EXCEPT !.kind = "tick", !.pc = "done"]
         ELSE [TaskIdle EXCEPT !.kind = "tick", !.pc = "callRefresh"])
  /\ opCount' = opCount + 1
  /\ UNCHANGED <<selVars, rotVars, tokenStorage, SLACK_TOKEN, now, fresh,
                 issued, scheduler>>

TokenValidAtExpiry(ts, t0) == ts.accessToken # NULL /\ ts.tokenExpiry >= t0

\* tokenStorage.accessToken && tokenStorage.tokenExpiry > Date.now()
TokenValid(ts, t0) == ts.accessToken # NULL /\ ts.tokenExpiry > t0

CanRefreshUnchecked(ts) == TRUE

\* !tokenStorage.refreshToken is false: a refresh can be asked for
CanRefresh(ts) == ts.refreshToken # NULL

refreshStoreDropsStale(ts, reply, t0) ==
  IF reply.outcome # "ok" THEN [ts EXCEPT !.accessToken = NULL]
  ELSE [ts EXCEPT !.accessToken = reply.access_token,
                  !.tokenExpiry = t0 + reply.expires_in * MsPerSecond,
                  !.refreshToken = IF reply.refresh_token # NULL
                                     THEN reply.refresh_token ELSE @]

refreshStoreTokenFirst(ts, reply, t0) ==
  IF reply.outcome # "ok" THEN ts
  ELSE [ts EXCEPT !.accessToken = reply.access_token]

\* The token record after refreshSpotifyToken got the reply at time t0:
\* written only when response.ok, the refresh token only when the reply
\* carries one.
refreshStore(ts, reply, t0) ==
  IF reply.outcome # "ok" THEN ts
  ELSE [ts EXCEPT !.accessToken = reply.access_token,
                  !.tokenExpiry = t0 + reply.expires_in * MsPerSecond,
                  !.refreshToken = IF reply.refresh_token # NULL
                                     THEN reply.refresh_token ELSE @]

\* the exchange stays the last thing that happened to the token record
\* only until a refreshSpotifyToken call made after it has returned
Consumed(f) == IF f.called THEN NoFresh ELSE f

\* refreshSpotifyToken() up to its return or its fetch
refreshSpotifyTokenCall(t) ==
  /\ tasks[t].pc = "callRefresh"
  /\ Step(t, IF TokenValid(tokenStorage, now)
              THEN [tasks[t] EXCEPT !.pc = "gotToken", !.via = "fast",
                                    !.token = tokenStorage.accessToken]
            ELSE IF ~CanRefresh(tokenStorage)
              THEN [tasks[t] EXCEPT !.pc = "gotToken", !.via = "unauth",
                                    !.token = NULL]
              ELSE [tasks[t] EXCEPT !.pc = "refreshWait",
                                    !.sent = tokenStorage.refreshToken])
  /\ fresh' = IF fresh.token # NULL THEN [fresh EXCEPT !.called = TRUE]
                                    ELSE fresh
  /\ UNCHANGED <<selVars, rotVars, tokenStorage, SLACK_TOKEN, now, opCount,
                 issued, scheduler>>

\* the token endpoint answered the refresh: the new access token, or null
refreshSpotifyTokenResponse(t) ==
  /\ ~Running
  /\ tasks[t].pc = "refreshWait"
  /\ \E reply \in TokenReplies({NULL} \cup RefreshTokens) :
       /\ tokenStorage' = refreshStore(tokenStorage, reply, now)
       /\ Step(t, [tasks[t] EXCEPT !.pc = "gotToken",
                      !.via = IF reply.outcome = "ok" THEN "refreshed"
                                                      ELSE reply.outcome,
                      !.token = IF reply.outcome = "ok"
                                  THEN tokenStorage'.accessToken ELSE NULL,
                      !.granted = reply.refresh_token])
       /\ fresh' = IF reply.outcome = "ok" THEN NoFresh ELSE Consumed(fresh)
       /\ issued' = IF reply.outcome = "ok" THEN Issue(reply, now)
                                            ELSE issued
  /\ UNCHANGED <<selVars, rotVars, SLACK_TOKEN, now, opCount, scheduler>>

setTokenResponseServerError(accessToken) ==
  IF accessToken # NULL
    THEN Respond(200, TRUE, "none")
    ELSE Respond(500, FALSE,
           "Refresh token was set but could not be validated")

\* the response of POST /set-token for what refreshSpotifyToken returned
setTokenResponse(accessToken) ==
  IF accessToken # NULL
    THEN Respond(200, TRUE, "none")
    ELSE Respond(400, FALSE,
           "Refresh token was set but could not be validated")

\* POST /set-token after refreshSpotifyToken returned
setTokenRespond(t) ==
  /\ tasks[t].pc = "gotToken" /\ tasks[t].kind = "set-token"
  /\ Step(t, [tasks[t] EXCEPT !.pc = "done",
                            !.resp = setTokenResponse(tasks[t].token)])
  /\ UNCHANGED <<selVars, rotVars, tokenStorage, SLACK_TOKEN, now, opCount, fresh,
                 issued, scheduler>>

\* getCurrentlyPlaying() after refreshSpotifyToken returned: null without a
\* token, else the now-playing request goes out
getCurrentlyPlayingFetch(t) ==
  /\ tasks[t].pc = "gotToken" /\ tasks[t].kind \in {"default", "tick"}
  /\ Step(t, IF tasks[t].token = NULL
         THEN [tasks[t] EXCEPT !.pc = "gotTrack", !.polled = TRUE,
                               !.track = NullTrack]
         ELSE [TaskIdle EXCEPT !.kind = tasks[t].kind,
                               !.pc = "nowPlayingWait"])
  /\ UNCHANGED <<selVars, rotVars, tokenStorage, SLACK_TOKEN, now, opCount, fresh,
                 issued, scheduler>>

\* replies of the now-playing endpoint: 204, 200 with a body, another
\* status (401), or a fetch / parse that throws (status 0)
NowPlayingReplies ==
  { [status |-> st, is_playing |-> FALSE, item |-> "none"] :
      st \in {204, 401, 0} }
  \cup { [status |-> 200, is_playing |-> b, item |-> i] :
           b \in BOOLEAN, i \in {"none", "noart", "art"} }

trackInfoOfNo204(reply) ==
  IF reply.status = 200
    THEN [null |-> FALSE, isPlaying |-> reply.is_playing,
          trackName |-> reply.item # "none",
          albumArtUrl |-> reply.item = "art"]
    ELSE NullTrack

trackInfoOfFetchError(reply) ==
  IF reply.status = 204 THEN NotPlaying
  ELSE IF reply.status = 200
    THEN [null |-> FALSE, isPlaying |-> reply.is_playing,
          trackName |-> reply.item # "none",
          albumArtUrl |-> reply.item = "art"]
    ELSE NotPlaying

\* the value getCurrentlyPlaying returns for a reply
trackInfoOf(reply) ==
  IF reply.status = 204 THEN NotPlaying
  ELSE IF reply.status = 200
    THEN [null |-> FALSE, isPlaying |-> reply.is_playing,
          trackName |-> reply.item # "none",
          albumArtUrl |-> reply.item = "art"]
    ELSE NullTrack

\* the now-playing endpoint answered
getCurrentlyPlayingResponse(t) ==
  /\ ~Running
  /\ tasks[t].pc = "nowPlayingWait"
  /\ \E reply \in NowPlayingReplies :
       Step(t, [tasks[t] EXCEPT !.pc = "gotTrack", !.polled = TRUE,
                              !.http = reply.status,
                              !.track = trackInfoOf(reply)])
  /\ UNCHANGED <<selVars, rotVars, tokenStorage, SLACK_TOKEN, now, opCount, fresh,
                 issued, scheduler>>

\* status text of updateStatus: 1 is "Playing: <track> by <artist>" with
\* the emoji, 0 is the empty text and emoji
statusTextOf(trackInfo) ==
  IF trackInfo.isPlaying /\ trackInfo.trackName THEN 1 ELSE 0

\* updateStatus(trackInfo) up to its return or the users.profile.set fetch
updateStatus(task, trackInfo) ==
  IF SLACK_TOKEN = NULL
    THEN [task EXCEPT !.pc = "gotStatus", !.statusResult = FALSE]
    ELSE [task EXCEPT !.pc = "statusWait",
            !.stat = updateSlackStatusCall(statusTextOf(trackInfo))]

\* default route after getCurrentlyPlaying returned
handlerPublish(t) ==
  /\ tasks[t].pc = "gotTrack" /\ tasks[t].kind = "default"
  /\ Step(t, IF ~tasks[t].track.null
         THEN updateStatus(tasks[t], tasks[t].track)
         ELSE updateStatus(tasks[t], NotPlaying))
  /\ UNCHANGED <<selVars, rotVars, tokenStorage, SLACK_TOKEN, now, opCount, fresh,
                 issued, scheduler>>

updateSpotifyStatusPublishAlways(t) ==
  /\ tasks[t].pc = "gotTrack" /\ tasks[t].kind = "tick"
  /\ Step(t, IF ~tasks[t].track.null
         THEN updateStatus(tasks[t], tasks[t].track)
         ELSE updateStatus(tasks[t], NotPlaying))
  /\ UNCHANGED <<selVars, rotVars, tokenStorage, SLACK_TOKEN, now, opCount,
                 fresh, issued, scheduler>>

\* updateSpotifyStatus after getCurrentlyPlaying returned
updateSpotifyStatusPublish(t) ==
  /\ tasks[t].pc = "gotTrack" /\ tasks[t].kind = "tick"
  /\ Step(t, IF tasks[t].track.null THEN [tasks[t] EXCEPT !.pc = "done"]
       ELSE IF ~tasks[t].track.isPlaying THEN [tasks[t] EXCEPT !.pc = "done"]
       ELSE updateStatus(tasks[t], tasks[t].track))
  /\ UNCHANGED <<selVars, rotVars, tokenStorage, SLACK_TOKEN, now, opCount, fresh,
                 issued, scheduler>>

\* the users.profile.set request of updateStatus completes
updateStatusResponse(t) ==
  /\ ~Running
  /\ tasks[t].pc = "statusWait"
  /\ \E o \in PostOutcomes :
       LET s == updateSlackStatusPost(tasks[t].stat, o)
       IN Step(t, [tasks[t] EXCEPT !.pc = "gotStatus", !.stat = s,
                                 !.statusResult = s.value])
  /\ UNCHANGED <<selVars, rotVars, tokenStorage, SLACK_TOKEN, now, opCount, fresh,
                 issued, scheduler>>

WantsPhotoArtOnly(task) == task.track.albumArtUrl

\* the condition under which the caller goes on to updateSlackPhoto
WantsPhoto(task) ==
  IF task.kind = "default"
    THEN ~task.track.null /\ task.track.isPlaying /\ task.track.albumArtUrl
    ELSE task.track.albumArtUrl

\* the end of the default route (JSON 200) or of updateSpotifyStatus
Finish(task) ==
  IF task.kind = "default"
    THEN [task EXCEPT !.pc = "done", !.resp = Respond(200, TRUE, "none")]
    ELSE [task EXCEPT !.pc = "done"]

\* after updateStatus returned: the photo update starts, or the run ends
afterStatus(t) ==
  /\ tasks[t].pc = "gotStatus"
  /\ Step(t, IF WantsPhoto(tasks[t])
         THEN [tasks[t] EXCEPT !.pc = "photoWait", !.photo = updateSlackPhotoCall]
         ELSE Finish(tasks[t]))
  /\ UNCHANGED <<selVars, rotVars, tokenStorage, SLACK_TOKEN, now, opCount, fresh,
                 issued, scheduler>>

\* a request of updateSlackPhoto completed, leaving it in state p; when it
\* returned, the track is saved as last played and the run ends
photoStep(t, p) ==
  IF p.pc = "done"
    THEN /\ Step(t, Finish([tasks[t] EXCEPT !.photo = p, !.photoResult = p.value]))
         /\ tokenStorage' = [tokenStorage EXCEPT
                               !.lastPlayedTrack = tasks[t].track]
    ELSE /\ Step(t, [tasks[t] EXCEPT !.photo = p])
         /\ UNCHANGED tokenStorage

\* the album-art fetch of updateSlackPhoto completes
photoImage(t) ==
  /\ ~Running
  /\ tasks[t].pc = "photoWait" /\ tasks[t].photo.pc = "fetch"
  /\ \E o \in ImageOutcomes :
       photoStep(t, updateSlackPhotoImage(tasks[t].photo, o))
  /\ UNCHANGED <<selVars, rotVars, SLACK_TOKEN, now, opCount, fresh,
                 issued, scheduler>>

\* the users.setPhoto request of updateSlackPhoto completes
photoPost(t) ==
  /\ ~Running
  /\ tasks[t].pc = "photoWait" /\ tasks[t].photo.pc = "post"
  /\ \E o \in PostOutcomes :
       photoStep(t, updateSlackPhotoPost(tasks[t].photo, o))
  /\ UNCHANGED <<selVars, rotVars, SLACK_TOKEN, now, opCount, fresh,
                 issued, scheduler>>

\* a tick ended without a published track: it was skipped for want of
\* credentials, got no track, or an update it made returned false
TickFailed(task) ==
  \/ ~task.polled
  \/ task.track.null
  \/ task.track.isPlaying /\ ~task.statusResult
  \/ task.photo.pc # "none" /\ ~task.photoResult

updateSpotifyStatusRethrows(task) ==
  IF TickFailed(task) THEN "rejected" ELSE "fulfilled"

\* How the promise of an updateSpotifyStatus() run settles: the early exits
\* return, refreshSpotifyToken, getCurrentlyPlaying, updateStatus and
\* updateSlackPhoto catch their own errors, and the try / catch around the
\* body logs whatever is left.
updateSpotifyStatusSettled(task) == "fulfilled"

\* the handler or tick returned: its slot is free again, and the timer
\* has seen the tick's promise settle
taskEnd(t) ==
  /\ tasks[t].pc = "done"
  /\ Step(t, TaskIdle)
  /\ scheduler' = IF tasks[t].kind = "tick"
       THEN TimerAfter(scheduler, updateSpotifyStatusSettled(tasks[t]),
                       TickFailed(tasks[t]))
       ELSE scheduler
  /\ UNCHANGED <<selVars, rotVars, tokenStorage, SLACK_TOKEN, now, opCount,
                 fresh, issued>>

\* ------------------------------------------------------- specifications
SelNext ==
  \/ SelCallParam
  \/ SelCallGlobal
  \/ getRandomIndexIter
  \/ SelReturn

\* the selector alone: the two scripts hold nothing and never run
InitSelector ==
  /\ lastIndex = -1
  /\ sel = SelIdle
  /\ selCalls = 0
  /\ images = << >> /\ statuses = << >>
  /\ currentStatusIndex = 0 /\ lastImageIndex = -1
  /\ cycles = [c \in Cycles |-> CycleIdle]
  /\ cycleCount = 0 /\ picks = << >> /\ posted = << >>
  /\ tokenStorage = [accessToken |-> NULL, refreshToken |-> NULL,
                     tokenExpiry |-> 0, codeVerifier |-> NULL,
                     lastPlayedTrack |-> NullTrack]
  /\ SLACK_TOKEN = NULL
  /\ now = TickMs
  /\ tasks = [t \in Tasks |-> TaskIdle]
  /\ opCount = 0
  /\ fresh = NoFresh /\ issued = NoIssue
  /\ scheduler = SchedulerOn("none")

SpecSelector == InitSelector /\ [][SelNext]_vars

\* a draw after which the loop condition is false
ExitDraw == getRandomIndexIter /\ sel'.pc = "ret"

\* Math.random() is fair: when some draw ends the loop, such a draw comes
SpecSelectorFair == SpecSelector /\ SF_vars(ExitDraw)

RotNext ==
  \/ \E c \in Cycles : cycleProfileStart(c)
  \/ getRandomIndexIter
  \/ \E c \in Cycles : cycleProfileLaunch(c)
  \/ \E c \in Cycles : cyclePhotoImage(c)
  \/ \E c \in Cycles : cyclePhotoPost(c)
  \/ \E c \in Cycles : cycleStatusPost(c)
  \/ \E c \in Cycles : cycleProfileSettle(c)
  \/ \E c \in Cycles : cycleProfileReturn(c)

\* the rotation script with any configured lists (item i stands for the
\* i-th URL / status); the tracker never runs
InitRotation ==
  /\ lastIndex = -1
  /\ sel = SelIdle
  /\ selCalls = 0
  /\ \E n \in 0 .. MaxImages : images = [i \in 1 .. n |-> i]
  /\ \E n \in 0 .. MaxStatuses :
       statuses = [i \in 1 .. n |-> [text |-> i, emoji |-> i]]
  /\ currentStatusIndex = 0 /\ lastImageIndex = -1
  /\ cycles = [c \in Cycles |-> CycleIdle]
  /\ cycleCount = 0 /\ picks = << >> /\ posted = << >>
  /\ tokenStorage = [accessToken |-> NULL, refreshToken |-> NULL,
                     tokenExpiry |-> 0, codeVerifier |-> NULL,
                     lastPlayedTrack |-> NullTrack]
  /\ SLACK_TOKEN = NULL
  /\ now = TickMs
  /\ tasks = [t \in Tasks |-> TaskIdle]
  /\ opCount = 0
  /\ fresh = NoFresh /\ issued = NoIssue
  /\ scheduler = SchedulerOn("rotation")

SpecRotation == InitRotation /\ [][RotNext]_vars

Next ==
  \/ clockTick
  \/ \E t \in Tasks : authStart(t)
  \/ \E t \in Tasks : authStore(t)
  \/ \E t \in Tasks : callbackStart(t)
  \/ \E t \in Tasks : exchangeResponse(t)
  \/ \E t \in Tasks : setTokenStart(t)
  \/ \E t \in Tasks : defaultStart(t)
  \/ \E t \in Tasks : updateSpotifyStatusStart(t)
  \/ \E t \in Tasks : refreshSpotifyTokenCall(t)
  \/ \E t \in Tasks : refreshSpotifyTokenResponse(t)
  \/ \E t \in Tasks : setTokenRespond(t)
  \/ \E t \in Tasks : getCurrentlyPlayingFetch(t)
  \/ \E t \in Tasks : getCurrentlyPlayingResponse(t)
  \/ \E t \in Tasks : handlerPublish(t)
  \/ \E t \in Tasks : updateSpotifyStatusPublish(t)
  \/ \E t \in Tasks : updateStatusResponse(t)
  \/ \E t \in Tasks : afterStatus(t)
  \/ \E t \in Tasks : photoImage(t)
  \/ \E t \in Tasks : photoPost(t)
  \/ \E t \in Tasks : taskEnd(t)

\* the tracker after module load: empty token record, SLACK_TOKEN from the
\* environment or ""; the rotation script never runs
Init ==
  /\ lastIndex = -1
  /\ sel = SelIdle
  /\ selCalls = 0
  /\ images = << >> /\ statuses = << >>
  /\ currentStatusIndex = 0 /\ lastImageIndex = -1
  /\ cycles = [c \in Cycles |-> CycleIdle]
  /\ cycleCount = 0 /\ picks = << >> /\ posted = << >>
  /\ tokenStorage = [accessToken |-> NULL, refreshToken |-> NULL,
                     tokenExpiry |-> 0, codeVerifier |-> NULL,
                     lastPlayedTrack |-> NullTrack]
  /\ SLACK_TOKEN \in {NULL, 1}
  /\ now = TickMs
  /\ tasks = [t \in Tasks |-> TaskIdle]
  /\ opCount = 0
  /\ fresh = NoFresh /\ issued = NoIssue
  /\ scheduler = SchedulerOn("polling")

Spec == Init /\ [][Next]_vars

\* either script, as deployed: the scheduler in rotation mode or in polling
\* mode
NextScheduler ==
  \/ scheduler.mode = "rotation" /\ RotNext
  \/ scheduler.mode = "polling" /\ Next

InitScheduler ==
  /\ lastIndex = -1
  /\ sel = SelIdle
  /\ selCalls = 0
  /\ currentStatusIndex = 0 /\ lastImageIndex = -1
  /\ cycles = [c \in Cycles |-> CycleIdle]
  /\ cycleCount = 0 /\ picks = << >> /\ posted = << >>
  /\ tokenStorage = [accessToken |-> NULL, refreshToken |-> NULL,
                     tokenExpiry |-> 0, codeVerifier |-> NULL,
                     lastPlayedTrack |-> NullTrack]
  /\ now = TickMs
  /\ tasks = [t \in Tasks |-> TaskIdle]
  /\ opCount = 0
  /\ fresh = NoFresh /\ issued = NoIssue
  /\ \/ /\ scheduler = SchedulerOn("rotation")
        /\ \E n \in 0 .. MaxImages : images = [i \in 1 .. n |-> i]
        /\ \E n \in 0 .. MaxStatuses :
             statuses = [i \in 1 .. n |-> [text |-> i, emoji |-> i]]
        /\ SLACK_TOKEN = NULL
     \/ /\ scheduler = SchedulerOn("polling")
        /\ images = << >> /\ statuses = << >>
        /\ SLACK_TOKEN \in {NULL, 1}

SpecScheduler == InitScheduler /\ [][NextScheduler]_vars

\* ---------------------------------------------------------------- claims
\* C1: in rotation mode with more than one image, the image index chosen by
\* a cycle is never the index chosen by the cycle before it.
C1_NoImmediateRepeat ==
  Len(images) > 1 =>
    \A k \in 1 .. (Len(picks) - 1) : picks[k] # picks[k + 1]

\* C2: for an array of length > 1 and any previous index, getRandomIndex
\* returns an index of the array that differs from the previous index, and
\* the array is what it was at entry.
C2_SelectDiffers ==
  (sel.pc = "ret" /\ Len(sel.given) > 1) =>
    /\ sel.newIndex \in 0 .. (Len(sel.given) - 1)
    /\ sel.newIndex # sel.prev
    /\ sel.array = sel.given

C2_Witness ==
  /\ sel.pc = "ret"
  /\ Len(sel.given) > 1
  /\ sel.prev \in 0 .. (Len(sel.given) - 1)

\* task t makes its call of refreshSpotifyToken in this step
RefreshCallBy(t) ==
  tasks[t].pc = "callRefresh" /\ tasks'[t].pc # "callRefresh"

\* no request to the token endpoint goes out in this step
NoTokenRequestSent ==
  \A u \in Tasks :
    tasks'[u].pc \in {"refreshWait", "exchangeWait"} =>
      tasks'[u].pc = tasks[u].pc

\* the stored access token is non-null and its expiry is after the clock
StoredTokenValid ==
  tokenStorage.accessToken # NULL /\ tokenStorage.tokenExpiry > now

\* C3: a refreshSpotifyToken call made while the stored access token is
\* non-null and its expiry is strictly after the current time returns that
\* token, sends no request and leaves the token record as it is; a token
\* whose expiry equals the current time is not returned on the fast path.
C3_FastPath ==
  [][\A t \in Tasks : RefreshCallBy(t) =>
       /\ StoredTokenValid =>
            /\ tasks'[t].pc = "gotToken"
            /\ tasks'[t].via = "fast"
            /\ tasks'[t].token = tokenStorage.accessToken
            /\ tokenStorage' = tokenStorage
            /\ NoTokenRequestSent
       /\ tokenStorage.tokenExpiry = now => tasks'[t].via # "fast"]_vars

C3_Witness ==
  \E t \in Tasks :
    /\ tasks[t].pc = "gotToken" /\ tasks[t].via = "fast"
    /\ tasks[t].token = tokenStorage.accessToken

\* C4: refreshSpotifyToken writes nothing before its request is answered;
\* when the refresh request fails it returns null and the token record is
\* left as it was; a later call that finds no valid access token and a
\* refresh token sends the refresh request again.
C4_RefreshFailure ==
  [][\A t \in Tasks :
       /\ RefreshCallBy(t) => tokenStorage' = tokenStorage
       /\ (/\ tasks[t].pc = "refreshWait"
           /\ tasks'[t].pc = "gotToken"
           /\ tasks'[t].via \in {"rejected", "throw"}) =>
            /\ tasks'[t].token = NULL
            /\ tokenStorage' = tokenStorage
       /\ (/\ RefreshCallBy(t)
           /\ ~StoredTokenValid
           /\ tokenStorage.refreshToken # NULL) =>
            /\ tasks'[t].pc = "refreshWait"
            /\ tasks'[t].sent = tokenStorage.refreshToken]_vars

C4_Witness ==
  \E t \in Tasks :
    /\ tasks[t].pc = "gotToken"
    /\ tasks[t].via \in {"rejected", "throw"}
    /\ tasks[t].token = NULL
    /\ tokenStorage.accessToken # NULL
    /\ tokenStorage.refreshToken # NULL

\* C5: when the code exchange of /callback fails, the handler answers 500
\* with success false and the token record, pending verifier included, is
\* left as it was.
C5_ExchangeFailure ==
  [][\A t \in Tasks :
       (/\ tasks[t].pc = "exchangeWait"
        /\ tasks'[t].pc = "done"
        /\ tasks'[t].via # "ok") =>
         /\ tasks'[t].resp.status = 500
         /\ ~tasks'[t].resp.success
         /\ tokenStorage' = tokenStorage]_vars

C5_Witness ==
  \E t \in Tasks :
    /\ tasks[t].pc = "done" /\ tasks[t].kind = "callback"
    /\ tasks[t].via \in {"rejected", "throw"}
    /\ tasks[t].verifier # NULL
    /\ tokenStorage.codeVerifier = tasks[t].verifier

\* C6: a successful code exchange stores the issued access token with
\* expiry now + lifetime; the refreshSpotifyToken call that follows it
\* directly (nothing else wrote the access token in between, less than the
\* lifetime has passed) returns exactly that token and sends no request.
C6_RoundTrip ==
  [][\A t \in Tasks :
       /\ (/\ tasks[t].pc = "exchangeWait"
           /\ tasks'[t].pc = "done"
           /\ tasks'[t].via = "ok") =>
            /\ tokenStorage'.accessToken = tasks'[t].token
            /\ tokenStorage'.tokenExpiry = now + fresh'.lifetime * MsPerSecond
            /\ tokenStorage'.tokenExpiry > now
       /\ (/\ RefreshCallBy(t)
           /\ fresh.token # NULL /\ ~fresh.called
           /\ now - fresh.at < fresh.lifetime * MsPerSecond) =>
            /\ tasks'[t].pc = "gotToken"
            /\ tasks'[t].token = fresh.token
            /\ NoTokenRequestSent]_vars

C6_Witness ==
  \E t \in Tasks :
    /\ tasks[t].pc = "gotToken" /\ tasks[t].via = "fast"
    /\ fresh.called
    /\ tasks[t].token = fresh.token
    /\ now > fresh.at

\* C7: a refreshSpotifyToken call made with neither a valid access token
\* nor a refresh token returns null, sends no request and leaves the token
\* record as it is.
C7_Unauthenticated ==
  [][\A t \in Tasks :
       (/\ RefreshCallBy(t)
        /\ ~StoredTokenValid
        /\ tokenStorage.refreshToken = NULL) =>
         /\ tasks'[t].pc = "gotToken"
         /\ tasks'[t].via = "unauth"
         /\ tasks'[t].token = NULL
         /\ tokenStorage' = tokenStorage
         /\ NoTokenRequestSent]_vars

C7_Witness ==
  \E t \in Tasks :
    /\ tasks[t].pc = "gotToken" /\ tasks[t].via = "unauth"
    /\ tasks[t].token = NULL
    /\ tokenStorage.refreshToken = NULL

\* C8: a /callback with a code that finds no pending verifier answers 400
\* with the missing-verifier error, sends no exchange request and leaves
\* the token record as it is; a successful exchange leaves no pending
\* verifier, so a /callback right after it fails this way.
C8_MissingVerifier ==
  [][\A t \in Tasks :
       /\ (/\ tasks[t].pc = "idle"
           /\ tasks'[t].kind = "callback"
           /\ tasks'[t].code # NULL
           /\ tokenStorage.codeVerifier = NULL) =>
            /\ tasks'[t].pc = "done"
            /\ tasks'[t].resp = Respond(400, FALSE, "No code verifier found")
            /\ tokenStorage' = tokenStorage
            /\ NoTokenRequestSent
       /\ (/\ tasks[t].pc = "exchangeWait"
           /\ tasks'[t].pc = "done"
           /\ tasks'[t].via = "ok") =>
            tokenStorage'.codeVerifier = NULL]_vars

C8_Witness ==
  \E t \in Tasks :
    /\ tasks[t].pc = "done" /\ tasks[t].kind = "callback"
    /\ tasks[t].resp.error = "No code verifier found"
    /\ fresh.token # NULL

\* no image URL is available for the polled track
NoImage(track) == track.null \/ ~track.isPlaying \/ ~track.albumArtUrl

\* C9 as stated: in every default-route run and scheduler tick that polled,
\* when no image URL is available no photo update is called, the photo
\* result is false and the status update is still attempted.
C9_StatusAlwaysAttempted ==
  \A t \in Tasks :
    (/\ tasks[t].pc = "done" /\ tasks[t].kind \in {"default", "tick"}
     /\ tasks[t].polled /\ SLACK_TOKEN # NULL
     /\ NoImage(tasks[t].track)) =>
      /\ tasks[t].photo.pc = "none"
      /\ tasks[t].photoResult = FALSE
      /\ tasks[t].stat.pc = "done"

\* C9 amended: when no image URL is available no photo update is called and
\* the photo result is false; the status update is attempted exactly when a
\* Slack token is configured and the run is the default route, or a
\* scheduler tick whose track is playing.
C9_NoImageNoPhoto ==
  \A t \in Tasks :
    (/\ tasks[t].pc = "done" /\ tasks[t].kind \in {"default", "tick"}
     /\ tasks[t].polled
     /\ NoImage(tasks[t].track)) =>
      /\ tasks[t].photo.pc = "none"
      /\ tasks[t].photoResult = FALSE
      /\ tasks[t].stat.pc = "done" <=>
           /\ SLACK_TOKEN # NULL
           /\ \/ tasks[t].kind = "default"
              \/ ~tasks[t].track.null /\ tasks[t].track.isPlaying

C9_Witness ==
  \E t \in Tasks :
    /\ tasks[t].pc = "done" /\ tasks[t].kind = "tick"
    /\ tasks[t].polled /\ SLACK_TOKEN # NULL
    /\ ~tasks[t].track.null /\ ~tasks[t].track.isPlaying
    /\ tasks[t].stat.pc = "none" /\ tasks[t].photo.pc = "none"

\* C10: when a cycle's Promise.allSettled has resolved, both updates were
\* run and both promises are fulfilled (nothing was thrown to the caller),
\* and each boolean is decided by that update's own requests alone.
C10_FailureIsolation ==
  \A c \in Cycles :
    cycles[c].pc = "settled" =>
      /\ cycles[c].photo.status = "fulfilled"
      /\ cycles[c].stat.status = "fulfilled"
      /\ cycles[c].photo.img # "none"
      /\ cycles[c].stat.post # "none"
      /\ cycles[c].photo.value =
           (cycles[c].photo.img # "throw" /\ cycles[c].photo.post = "ok")
      /\ cycles[c].stat.value = (cycles[c].stat.post = "ok")

C10_Witness ==
  \E c \in Cycles :
    /\ cycles[c].pc = "settled"
    /\ cycles[c].photo.img = "throw" /\ ~cycles[c].photo.value
    /\ cycles[c].stat.post = "ok" /\ cycles[c].stat.value

\* the poll of task t ended unauthenticated: the tick found no refresh
\* token, or refreshSpotifyToken returned null
Unauthenticated(task) ==
  ~task.polled \/ task.via \in {"unauth", "rejected", "throw"}

\* C11: a scheduler tick whose poll ended unauthenticated (no refresh token
\* stored, or no access token obtained) returns without having called
\* updateStatus or updateSlackPhoto: no request went to the platform.
C11_UnauthenticatedTickExits ==
  \A t \in Tasks :
    (/\ tasks[t].pc = "done" /\ tasks[t].kind = "tick"
     /\ Unauthenticated(tasks[t])) =>
      /\ tasks[t].track.null
      /\ tasks[t].stat.pc = "none"
      /\ tasks[t].photo.pc = "none"
      /\ ~tasks[t].statusResult /\ ~tasks[t].photoResult

C11_Witness ==
  \E t \in Tasks :
    /\ tasks[t].pc = "done" /\ tasks[t].kind = "tick"
    /\ tasks[t].polled /\ tasks[t].via \in {"rejected", "throw"}
    /\ SLACK_TOKEN # NULL
    /\ tasks[t].stat.pc = "none"

\* C12 as stated: a scheduler tick whose now-playing request was answered
\* 204 got { isPlaying: false } and then sent the status update with empty
\* text and emoji and no photo update, so that an accepted request gives
\* status updated and photo not updated.
C12_NoTrackClearsStatus ==
  \A t \in Tasks :
    (/\ tasks[t].pc = "done" /\ tasks[t].kind = "tick"
     /\ tasks[t].http = 204 /\ SLACK_TOKEN # NULL) =>
      /\ tasks[t].track = NotPlaying
      /\ tasks[t].photo.pc = "none" /\ ~tasks[t].photoResult
      /\ tasks[t].stat.pc = "done" /\ tasks[t].stat.sent = 0
      /\ tasks[t].statusResult = (tasks[t].stat.post = "ok")

\* C12 amended: after a 204 the poller returned { isPlaying: false }; no
\* photo update is made; the scheduler tick exits without a status update,
\* and the default route sends the status update with empty text and emoji
\* when a Slack token is configured, its result being true exactly when the
\* platform accepted it.
C12_NoTrackDefaultClears ==
  \A t \in Tasks :
    (/\ tasks[t].pc = "done" /\ tasks[t].kind \in {"default", "tick"}
     /\ tasks[t].http = 204) =>
      /\ tasks[t].track = NotPlaying
      /\ tasks[t].photo.pc = "none" /\ ~tasks[t].photoResult
      /\ tasks[t].kind = "tick" =>
           tasks[t].stat.pc = "none" /\ ~tasks[t].statusResult
      /\ (tasks[t].kind = "default" /\ SLACK_TOKEN = NULL) =>
           tasks[t].stat.pc = "none" /\ ~tasks[t].statusResult
      /\ (tasks[t].kind = "default" /\ SLACK_TOKEN # NULL) =>
           /\ tasks[t].stat.pc = "done" /\ tasks[t].stat.sent = 0
           /\ tasks[t].statusResult = (tasks[t].stat.post = "ok")

C12_Witness ==
  \E t \in Tasks :
    /\ tasks[t].pc = "done" /\ tasks[t].kind = "tick"
    /\ tasks[t].http = 204 /\ SLACK_TOKEN # NULL
    /\ tasks[t].track = NotPlaying
    /\ tasks[t].stat.pc = "none" /\ tasks[t].photo.pc = "none"

C13_WitnessRotation ==
  /\ scheduler.running /\ scheduler.failed
  /\ \E c \in Cycles : cycles[c].pc = "select"

\* cycle c's Promise.allSettled resolves in this step
SettlesNow(c) == cycles[c].pc = "await" /\ cycles'[c].pc = "settled"

\* C14: with a non-empty status list the cursor is an index of the list in
\* every state; the step in which a cycle's updates have settled moves it
\* to the next index, wrapping at the end of the list, whatever the two
\* updates returned, and nothing else moves it.
C14_CursorAdvances ==
  /\ [](Len(statuses) > 0 =>
          currentStatusIndex \in 0 .. (Len(statuses) - 1))
  /\ [][/\ \A c \in Cycles : SettlesNow(c) =>
              currentStatusIndex' =
                IF currentStatusIndex = Len(statuses) - 1
                  THEN 0 ELSE currentStatusIndex + 1
        /\ currentStatusIndex' # currentStatusIndex =>
              \E c \in Cycles : SettlesNow(c)]_vars

C14_Witness ==
  /\ Len(statuses) = 2 /\ currentStatusIndex = 0
  /\ \E c \in Cycles :
       /\ cycles[c].pc = "settled"
       /\ ~cycles[c].photo.value /\ ~cycles[c].stat.value

\* what a skipped cycle must leave alone: the selector, the cursor, the
\* last image index and the record of the images picked
RotationUntouched ==
  /\ sel' = sel /\ sel.pc = "idle"
  /\ currentStatusIndex' = currentStatusIndex
  /\ lastImageIndex' = lastImageIndex
  /\ picks' = picks

\* C15: a cycle started while the image list or the status list is empty
\* returns at once: getRandomIndex is not called, neither update is
\* started, and the cursor and the last image index stay as they are, at
\* the start of the cycle and at its return.
C15_EmptyIsNoOp ==
  [][\A c \in Cycles :
       /\ (/\ cycles[c].pc = "idle" /\ cycles'[c].pc # "idle"
           /\ (Len(images) = 0 \/ Len(statuses) = 0)) =>
            /\ cycles'[c].pc = "skipped"
            /\ cycles'[c].photo.pc = "none"
            /\ cycles'[c].stat.pc = "none"
            /\ RotationUntouched
       /\ (cycles[c].pc = "skipped" /\ cycles'[c] # cycles[c]) =>
            /\ cycles'[c] = CycleIdle
            /\ RotationUntouched]_vars

C15_Witness ==
  /\ Len(images) > 0 /\ Len(statuses) = 0
  /\ \E c \in Cycles : cycles[c].pc = "skipped"

\* C16: getRandomIndex on an array of length 1 returns index 0 on its
\* first draw, whatever the previous index is; on any non-empty array the
\* loop is left after finitely many draws when the draws are fair.
C16_Terminates ==
  /\ [][(sel.pc = "loop" /\ Len(sel.array) = 1 /\ sel' # sel) =>
          /\ sel.newIndex = -1
          /\ sel'.pc = "ret" /\ sel'.newIndex = 0]_vars
  /\ (sel.pc = "loop" ~> sel.pc = "ret")

C16_Witness ==
  /\ sel.pc = "ret" /\ Len(sel.given) = 1
  /\ sel.prev = 0 /\ sel.newIndex = 0

\* the errors of /callback and /set-token that name a client input problem
ClientErrors ==
  {"No authorization code provided", "No code verifier found",
   "Invalid JSON body", "No refresh token provided"}

\* the token request of task t was rejected or did not get through
UpstreamFailed(task) == task.via \in {"rejected", "throw"}

\* C17 as stated: a failure response of /callback or /set-token has status
\* 400 when the cause is a client input problem and status 500 when the
\* token exchange or the token refresh was rejected or unreachable.
C17_FailureStatus ==
  \A t \in Tasks :
    (/\ tasks[t].pc = "done" /\ tasks[t].kind \in {"callback", "set-token"}
     /\ ~tasks[t].resp.success) =>
      /\ tasks[t].resp.error \in ClientErrors => tasks[t].resp.status = 400
      /\ UpstreamFailed(tasks[t]) => tasks[t].resp.status = 500

\* C17 amended: a failure response has status 400 when the cause is a
\* client input problem, status 500 when the token exchange of /callback
\* was rejected or unreachable, and status 400 again when the refresh that
\* validates the token of /set-token was rejected or unreachable.
C17_FailureStatusByRoute ==
  \A t \in Tasks :
    (/\ tasks[t].pc = "done" /\ tasks[t].kind \in {"callback", "set-token"}
     /\ ~tasks[t].resp.success) =>
      /\ tasks[t].resp.status \in {400, 500}
      /\ tasks[t].resp.error \in ClientErrors =>
           tasks[t].resp.status = 400 /\ ~UpstreamFailed(tasks[t])
      /\ tasks[t].resp.error \notin ClientErrors => UpstreamFailed(tasks[t])
      /\ UpstreamFailed(tasks[t]) =>
           tasks[t].resp.status =
             IF tasks[t].kind = "callback" THEN 500 ELSE 400

C17_Witness ==
  \E t \in Tasks :
    /\ tasks[t].pc = "done" /\ tasks[t].kind = "set-token"
    /\ tasks[t].via = "throw"
    /\ tasks[t].resp = Respond(400, FALSE,
         "Refresh token was set but could not be validated")

\* C18: a success response of POST /set-token means that a refresh request
\* carrying the refresh token of the body was sent and accepted.
C18_SetTokenValidated ==
  \A t \in Tasks :
    (/\ tasks[t].pc = "done" /\ tasks[t].kind = "set-token"
     /\ tasks[t].resp.success) =>
      /\ tasks[t].via = "refreshed"
      /\ tasks[t].sent = tasks[t].body

\* task t's code exchange is accepted in this step
ExchangeAcceptedBy(t) ==
  /\ tasks[t].pc = "exchangeWait"
  /\ tasks'[t].pc = "done" /\ tasks'[t].via = "ok"

\* C19: the pending verifier is cleared only in the step in which an
\* exchange that sent this very verifier is accepted, so a verifier stored
\* by /auth and not used in an accepted exchange is never cleared.
C19_VerifierClearedByItsExchange ==
  [][(tokenStorage.codeVerifier # NULL /\ tokenStorage'.codeVerifier = NULL)
       => \E t \in Tasks :
            /\ ExchangeAcceptedBy(t)
            /\ tasks[t].verifier = tokenStorage.codeVerifier]_vars

\* task t's refresh request is accepted in this step
RefreshAcceptedBy(t) ==
  /\ tasks[t].pc = "refreshWait"
  /\ tasks'[t].pc = "gotToken" /\ tasks'[t].via = "refreshed"

\* C20: in every state the stored access token and the stored expiry are
\* those of one and the same accepted token response, the last one; the
\* step that takes in an accepted response stores its access token, its
\* expiry and, when it carries one, its refresh token together, and no
\* other step touches the access token or the expiry.
C20_AtomicTokenUpdate ==
  /\ [](/\ tokenStorage.accessToken = issued.access_token
        /\ tokenStorage.tokenExpiry = issued.expiry)
  /\ [][/\ \A t \in Tasks :
            (ExchangeAcceptedBy(t) \/ RefreshAcceptedBy(t)) =>
              /\ tokenStorage'.accessToken = tasks'[t].token
              /\ tokenStorage'.tokenExpiry > now
              /\ tasks'[t].granted # NULL =>
                   tokenStorage'.refreshToken = tasks'[t].granted
        /\ (\/ tokenStorage'.accessToken # tokenStorage.accessToken
            \/ tokenStorage'.tokenExpiry # tokenStorage.tokenExpiry) =>
              \E t \in Tasks : ExchangeAcceptedBy(t) \/ RefreshAcceptedBy(t)]_vars

\* a refresh has just been accepted while another task, which polled with
\* an earlier token, is still in flight
C20_Witness ==
  \E t, u \in Tasks :
    /\ t # u
    /\ tasks[t].pc = "gotToken" /\ tasks[t].via = "refreshed"
    /\ tasks[u].pc \in {"nowPlayingWait", "statusWait", "photoWait"}
    /\ tokenStorage.tokenExpiry > now

\* the now-playing request of the task failed: a status other than 200 and
\* 204, or a request that threw
FetchFailed(task) == task.polled /\ task.http \notin {-1, 200, 204}

\* the task's getCurrentlyPlaying got no token from refreshSpotifyToken
AuthFailed(task) ==
  task.polled /\ task.via \in {"unauth", "rejected", "throw"}

\* a task that holds what getCurrentlyPlaying returned to it
Polled(t) ==
  tasks[t].pc \in {"gotTrack", "done"} /\ tasks[t].polled

C22_RoundRobin ==
  \A k \in 1 .. (Len(posted) - 1) :
    posted[k + 1] = (posted[k] + 1) % Len(statuses)

\* the stored access token is the one the last accepted code exchange
\* issued, and its expiry has not passed
ExchangeTokenStored ==
  /\ fresh.token # NULL
  /\ tokenStorage.accessToken = fresh.token
  /\ tokenStorage.tokenExpiry = fresh.at + fresh.lifetime * MsPerSecond
  /\ tokenStorage.tokenExpiry > now

\* C23: while the access token stored by an accepted code exchange has not
\* expired, a refresh response that comes in (its request was sent before
\* the exchange completed) replaces neither the access token nor the
\* expiry.
C23_ExchangeTokenStays ==
  [][\A t \in Tasks :
       (RefreshAcceptedBy(t) /\ ExchangeTokenStored) =>
         /\ tokenStorage'.accessToken = tokenStorage.accessToken
         /\ tokenStorage'.tokenExpiry = tokenStorage.tokenExpiry]_vars
\* C24: a refresh token, once stored, is never lost: no step of any
\* request or tick leaves the record without one, and an accepted refresh
\* response replaces it by the refresh token it carries, or keeps the old
\* one when it carries none.
C24_RefreshTokenKept ==
  [][tokenStorage.refreshToken # NULL =>
       /\ tokenStorage'.refreshToken # NULL
       /\ \A t \in Tasks :
            RefreshAcceptedBy(t) =>
              tokenStorage'.refreshToken =
                IF tasks'[t].granted # NULL THEN tasks'[t].granted
                ELSE tokenStorage.refreshToken]_vars

\* POST /set-token with a non-empty refreshToken is entered by task t
SetTokenStoredBy(t) ==
  /\ tasks[t].pc = "idle"
  /\ tasks'[t].kind = "set-token" /\ tasks'[t].body # NULL

\* C25: POST /set-token with a non-empty refreshToken stores it before any
\* validation request goes out; no later step of that request other than
\* an accepted refresh response writes the stored refresh token, so a
\* failed validation answers success false and rolls nothing back; a tick
\* that finds a refresh token stored goes on to refreshSpotifyToken, and
\* without a valid access token it sends the stored refresh token.
C25_StoredBeforeValidated ==
  [][\A t \in Tasks :
       /\ SetTokenStoredBy(t) =>
            /\ tokenStorage'.refreshToken = tasks'[t].body
            /\ tasks'[t].pc = "callRefresh" /\ tasks'[t].sent = NULL
       /\ (/\ tasks[t].kind = "set-token" /\ tasks'[t] # tasks[t]
           /\ ~RefreshAcceptedBy(t)) =>
            tokenStorage'.refreshToken = tokenStorage.refreshToken
       /\ (/\ tasks[t].kind = "set-token" /\ tasks[t].pc = "gotToken"
           /\ tasks[t].via \in {"rejected", "throw"}
           /\ tasks'[t].pc = "done") =>
            ~tasks'[t].resp.success
       /\ (/\ tasks[t].pc = "idle" /\ tasks'[t].kind = "tick"
           /\ tokenStorage.refreshToken # NULL) =>
            tasks'[t].pc = "callRefresh"
       /\ (/\ tasks[t].kind = "tick" /\ tasks[t].pc = "callRefresh"
           /\ tasks'[t] # tasks[t]
           /\ ~TokenValid(tokenStorage, now)) =>
            /\ tasks'[t].pc = "refreshWait"
            /\ tasks'[t].sent = tokenStorage.refreshToken]_vars

\* two operations so far, and no token response was ever accepted: the
\* first was a /set-token whose validation failed and which is over; the
\* second, a tick in the slot it left, has sent a refresh request with the
\* token it left behind
C25_Witness ==
  /\ opCount = 2 /\ issued = NoIssue
  /\ tasks[1].kind = "tick" /\ tasks[1].pc = "refreshWait"
  /\ tasks[1].sent # NULL /\ tasks[1].sent = tokenStorage.refreshToken
  /\ \A u \in Tasks \ {1} : tasks[u].pc = "idle"

====
